---- MODULE Spec2Model ----
(***************************************************************************)
(* A model of the write-ahead log of wal_project: the on-disk framing      *)
(* codec, the recovery scanner, and the log engine with its three locks.   *)
(* The file is a sequence of bytes; a 32-bit word is the tuple of its four *)
(* bytes in big-endian order (the order binary.BigEndian puts them in the  *)
(* file), so that every 32-bit value of the program is represented exactly.*)
(***************************************************************************)
EXTENDS Integers, Sequences, FiniteSets, TLC

(***************************************************************************)
(* Constants of the program (types.go).                                    *)
(***************************************************************************)
WALFileHeaderSize == 8
EntryHeaderSize == 9
EntryTypeData == 1
\* WALMagicNumber = 0x57414C21 ("WAL!") and WALVersion = 1, as big-endian words
WALMagicNumber == <<87, 65, 76, 33>>
WALVersion == <<0, 0, 0, 1>>

(***************************************************************************)
(* Bytes and 32-bit words.                                                 *)
(***************************************************************************)
RECURSIVE XorBits(_, _)
\* bitwise exclusive or of two naturals
XorBits(a, b) ==
    IF a = 0 THEN b
    ELSE IF b = 0 THEN a
    ELSE ((a + b) % 2) + 2 * XorBits(a \div 2, b \div 2)

\* exclusive or of two bytes, tabulated once
XorByte == [a \in 0..255 |-> [b \in 0..255 |-> XorBits(a, b)]]

\* exclusive or of two 32-bit words
XorWord(v, w) == <<XorByte[v[1]][w[1]], XorByte[v[2]][w[2]],
                   XorByte[v[3]][w[3]], XorByte[v[4]][w[4]]>>

\* w >> 1 and w >> 8 on a 32-bit word
ShiftRight1(w) == <<w[1] \div 2,
                    (w[2] \div 2) + 128 * (w[1] % 2),
                    (w[3] \div 2) + 128 * (w[2] % 2),
                    (w[4] \div 2) + 128 * (w[3] % 2)>>
ShiftRight8(w) == <<0, w[1], w[2], w[3]>>

\* binary.BigEndian.PutUint32 of a value below 2^31
PutUint32(n) == <<(n \div 16777216) % 256, (n \div 65536) % 256,
                  (n \div 256) % 256, n % 256>>

\* binary.BigEndian.Uint32 of a word whose value is below 2^31
Uint32(w) == w[1] * 16777216 + w[2] * 65536 + w[3] * 256 + w[4]

\* w > n for an unsigned 32-bit word w and a limit n below 2^31
WordExceeds(w, n) == w[1] >= 128 \/ Uint32(w) > n

(***************************************************************************)
(* hash/crc32, IEEE polynomial (reflected form 0xEDB88320).                *)
(***************************************************************************)
IEEEPoly == <<237, 184, 131, 32>>

RECURSIVE CrcTableEntry(_, _)
CrcTableEntry(w, k) ==
    IF k = 0 THEN w
    ELSE CrcTableEntry(IF w[4] % 2 = 1 THEN XorWord(ShiftRight1(w), IEEEPoly)
                       ELSE ShiftRight1(w), k - 1)

CrcTable == [b \in 0..255 |-> CrcTableEntry(<<0, 0, 0, b>>, 8)]

\* one step of the table-driven update: the register after one more byte
CrcByte(crc, b) == XorWord(CrcTable[XorByte[crc[4]][b]], ShiftRight8(crc))

RECURSIVE CrcUpdate(_, _, _)
\* the register after the bytes s[i..Len(s)]
CrcUpdate(crc, s, i) ==
    IF i > Len(s) THEN crc ELSE CrcUpdate(CrcByte(crc, s[i]), s, i + 1)

AllOnes == <<255, 255, 255, 255>>

(***************************************************************************)
(* The register after 2^32 zero bytes.  For a zero byte the update is      *)
(* linear over GF(2) (CrcTable[0] is the zero word), so it is a 32 x 32    *)
(* bit matrix, kept as the images of the 32 unit words; 2^32 such updates  *)
(* are that matrix squared 32 times.                                       *)
(***************************************************************************)
Pow2(k) == CASE k = 0 -> 1 [] k = 1 -> 2 [] k = 2 -> 4 [] k = 3 -> 8
             [] k = 4 -> 16 [] k = 5 -> 32 [] k = 6 -> 64 [] k = 7 -> 128
UnitWord(i) == [j \in 1..4 |-> IF j = 4 - (i \div 8) THEN Pow2(i % 8) ELSE 0]
BitOf(w, i) == (w[4 - (i \div 8)] \div Pow2(i % 8)) % 2

RECURSIVE ApplyMapFrom(_, _, _, _)
\* acc xor the images under m of the bits i..31 of w
ApplyMapFrom(m, w, i, acc) ==
    IF i > 31 THEN acc
    ELSE ApplyMapFrom(m, w, i + 1, IF BitOf(w, i) = 1 THEN XorWord(acc, m[i]) ELSE acc)

\* the image of word w under the linear map m
ApplyMap(m, w) == ApplyMapFrom(m, w, 0, <<0, 0, 0, 0>>)

\* the map m applied twice
SquareMap(m) == [i \in 0..31 |-> ApplyMap(m, m[i])]

\* the update for 2^k zero bytes, k = 0..32, each the square of the one before
ZeroByteMap == [i \in 0..31 |-> CrcByte(UnitWord(i), 0)]
ZeroMap1 == SquareMap(ZeroByteMap)
ZeroMap2 == SquareMap(ZeroMap1)
ZeroMap3 == SquareMap(ZeroMap2)
ZeroMap4 == SquareMap(ZeroMap3)
ZeroMap5 == SquareMap(ZeroMap4)
ZeroMap6 == SquareMap(ZeroMap5)
ZeroMap7 == SquareMap(ZeroMap6)
ZeroMap8 == SquareMap(ZeroMap7)
ZeroMap9 == SquareMap(ZeroMap8)
ZeroMap10 == SquareMap(ZeroMap9)
ZeroMap11 == SquareMap(ZeroMap10)
ZeroMap12 == SquareMap(ZeroMap11)
ZeroMap13 == SquareMap(ZeroMap12)
ZeroMap14 == SquareMap(ZeroMap13)
ZeroMap15 == SquareMap(ZeroMap14)
ZeroMap16 == SquareMap(ZeroMap15)
ZeroMap17 == SquareMap(ZeroMap16)
ZeroMap18 == SquareMap(ZeroMap17)
ZeroMap19 == SquareMap(ZeroMap18)
ZeroMap20 == SquareMap(ZeroMap19)
ZeroMap21 == SquareMap(ZeroMap20)
ZeroMap22 == SquareMap(ZeroMap21)
ZeroMap23 == SquareMap(ZeroMap22)
ZeroMap24 == SquareMap(ZeroMap23)
ZeroMap25 == SquareMap(ZeroMap24)
ZeroMap26 == SquareMap(ZeroMap25)
ZeroMap27 == SquareMap(ZeroMap26)
ZeroMap28 == SquareMap(ZeroMap27)
ZeroMap29 == SquareMap(ZeroMap28)
ZeroMap30 == SquareMap(ZeroMap29)
ZeroMap31 == SquareMap(ZeroMap30)
ZeroBlockMap == SquareMap(ZeroMap31)

RECURSIVE CrcZeroBlocks(_, _)
\* the register after n blocks of 2^32 zero bytes
CrcZeroBlocks(crc, n) ==
    IF n = 0 THEN crc ELSE CrcZeroBlocks(ApplyMap(ZeroBlockMap, crc), n - 1)

(***************************************************************************)
(* Payloads.  A caller's payload is nil, or the bytes `bytes` followed by   *)
(* `blocks` blocks of 2^32 zero bytes: its length is                       *)
(* Len(bytes) + blocks * 2^32, which no 32-bit integer holds when          *)
(* blocks > 0.  Payloads read back from the file are plain byte sequences. *)
(***************************************************************************)
NilData == [nil |-> TRUE, bytes |-> <<>>, blocks |-> 0]
Data(bs) == [nil |-> FALSE, bytes |-> bs, blocks |-> 0]
HugeData(bs, n) == [nil |-> FALSE, bytes |-> bs, blocks |-> n]

\* uint32(len(data)): the length modulo 2^32
LenUint32(data) == Len(data.bytes)

\* util.go computeChecksum: CRC-32 over type, uint32(len(data)), all of data
computeChecksum(t, data) ==
    XorWord(CrcZeroBlocks(CrcUpdate(AllOnes,
                                    <<t>> \o PutUint32(LenUint32(data)) \o data.bytes, 1),
                          data.blocks),
            AllOnes)

\* util.go encode: buf has EntryHeaderSize + dLen bytes, and copy() fills
\* buf[9:] with the first dLen bytes of the payload
encode(e) ==
    <<e.Type>> \o PutUint32(LenUint32(e.Data)) \o e.Checksum \o e.Data.bytes

\* the frame Append builds for a payload
Frame(data) ==
    encode([Type |-> EntryTypeData, Data |-> data,
            Checksum |-> computeChecksum(EntryTypeData, data)])

(***************************************************************************)
(* The file: os.File ReadAt, Write at the descriptor's position, Truncate. *)
(* Offsets are 0-based as in the program; byte o of f is f[o + 1].         *)
(***************************************************************************)
\* ReadAt(buf, off) fills buf or fails: io.EOF when the file ends first; a
\* zero-length buffer is never read
ReadAtOk(f, n, off) == n = 0 \/ off + n <= Len(f)
ReadAtBytes(f, n, off) == SubSeq(f, off + 1, off + n)

\* Write(bs) at position cur: overwrites in place, extends the file
FileWrite(f, cur, bs) ==
    LET gap == [i \in 1..(cur - Len(f)) |-> 0]
    IN  IF cur >= Len(f) THEN f \o gap \o bs
        ELSE SubSeq(f, 1, cur) \o bs \o SubSeq(f, cur + Len(bs) + 1, Len(f))

FileTruncate(f, size) ==
    IF size <= Len(f) THEN SubSeq(f, 1, size)
    ELSE f \o [i \in 1..(size - Len(f)) |-> 0]

VersionFirstFileHeader == WALVersion \o WALMagicNumber
FileHeader == WALMagicNumber \o WALVersion

\* The durable file: file.Sync makes the file's bytes durable; a Write or a
\* Truncate since then is pending, and a crash may drop it.  acked counts the
\* leading records that a Sync which returned success covers.
Synced(f, n) == [stable |-> f, pending |-> <<>>, acked |-> n]
Written(d, at, bs) ==
    [d EXCEPT !.pending = Append(@, [op |-> "write", at |-> at, bytes |-> bs])]
\* w.file.Sync() in wal.go Sync, whose success covers the first n records
SkippedFileSync(d, f, n) == [d EXCEPT !.acked = n]

FileSync(d, f, n) == Synced(f, n)

RECURSIVE CrashFiles(_, _)
\* the files a crash can leave: each pending operation, in order, is dropped
\* or has reached the disk, a write possibly only with its leading bytes
CrashFiles(f, ops) ==
    IF ops = <<>> THEN {f}
    ELSE LET op == Head(ops)
             done == IF op.op = "write"
                     THEN {FileWrite(f, op.at, SubSeq(op.bytes, 1, n)) :
                              n \in 1..Len(op.bytes)}
                     ELSE {FileTruncate(f, op.at)}
         IN  UNION {CrashFiles(g, Tail(ops)) : g \in {f} \cup done}

Shrunk(d, size, n) ==
    [d EXCEPT !.pending = Append(@, [op |-> "truncate", at |-> size, bytes |-> <<>>]),
              !.acked = IF n < @ THEN n ELSE @]

(***************************************************************************)
(* State.                                                                  *)
(***************************************************************************)
VARIABLES
    file,       \* the bytes of the file at the log's path
    fdOpen,     \* w.file is an open descriptor
    cursor,     \* the descriptor's position, where file.Write writes
    closed,     \* w.closed (0 or 1)
    index,      \* w.index: sequence of [Index, Offset]
    nextIndex,  \* w.nextIndex
    offset,     \* w.offset
    metrics,    \* w.metrics
    writeMu,    \* the thread holding w.writeMu, or NoThread
    indexMu,    \* the thread holding w.indexMu for writing, or NoThread
    readMu,     \* the threads holding w.readMu for reading
    pc,         \* where each caller is in its call
    call,       \* each caller's operation and arguments
    loc,        \* each caller's local variables
    ret,        \* what each caller's last completed call returned
    panicked,   \* the process died of a runtime panic
    openErr,    \* the error of the last NewWithConfig
    opens,      \* NewWithConfig calls so far
    damaged,    \* times the file was damaged behind the program's back
    spent,      \* Append and Sync calls started, crashes and I/O errors so far
    now,        \* the clock time.Now reads
    recs,       \* history: the payloads of the records the log holds
    seen,       \* history: LastIndex() and ReadAll() as of the last Close
    trunc,      \* history: the last successful truncate, and the Appends since
    disk,       \* what a crash leaves of the file: the bytes made durable by
                \* the last file.Sync, the writes and truncates since, and
                \* (history) how many records a successful Sync covers
    config,     \* w.config
    inputs,     \* the payloads callers pass to Append
    live,       \* the callers
    limits      \* how far the counters of a run may go

fileVars == <<file, fdOpen, cursor>>
handleVars == <<closed, index, nextIndex, offset, metrics>>
lockVars == <<writeMu, indexMu, readMu>>
threadVars == <<pc, call, loc, ret>>
runVars == <<panicked, openErr, opens, damaged, spent, now>>
histVars == <<recs, seen, trunc, disk>>
envVars == <<config, inputs, live, limits>>
vars == <<fileVars, handleVars, lockVars, threadVars, runVars, histVars, envVars>>

\* the durable file is followed in the runs that have crashes
Durable(d) == IF limits.crashes > 0 THEN d ELSE disk

NoThread == "none"
Threads == {"t1", "t2", "t3"}

NoCall == [op |-> "none", data |-> NilData, idx |-> 0]
NoMetrics == [WriteCount |-> 0, SyncCount |-> 0, BytesWritten |-> 0,
              Corruptions |-> 0, LastSyncTime |-> 0]

\* a call's locals, and history: snap holds the records that were indexed
\* when ReadAll copied the index (GetEntry: the record it looked up), prior the handle's fields when the call
\* began (kept for a caller that has the handle to itself)
NoPrior == [index |-> <<>>, nextIndex |-> 0, offset |-> 0, metrics |-> NoMetrics]
NoLoc == [indices |-> <<>>, results |-> <<>>, off |-> 0, snap |-> <<>>,
          prior |-> NoPrior]

\* what a call returned: err is "nil" on success; out holds the payloads
\* returned (GetEntry: one, ReadAll: all); n is LastIndex's result
Result(c, err, out, n) ==
    [op |-> c.op, data |-> c.data, idx |-> c.idx, err |-> err, out |-> out, n |-> n]
NoRet == Result(NoCall, "nil", <<>>, 0)

(***************************************************************************)
(* main.go readEntryAt: the bounded two-step read of the frame at offset   *)
(* off of file f through a descriptor that is open or not.                 *)
(***************************************************************************)
NoChecksumReadEntryAt(f, open, off, maxSize) ==
    LET dLenWord == SubSeq(f, off + 2, off + 5)
        dLen == Uint32(dLenWord)
    IN  IF ~open THEN [err |-> "ErrClosed", data |-> <<>>, size |-> 0]
        ELSE IF ~ReadAtOk(f, EntryHeaderSize, off)
        THEN [err |-> "EOF", data |-> <<>>, size |-> 0]
        ELSE IF WordExceeds(dLenWord, maxSize)
        THEN [err |-> "ErrEntryTooLarge", data |-> <<>>, size |-> 0]
        ELSE IF ~ReadAtOk(f, dLen, off + EntryHeaderSize)
        THEN [err |-> "EOF", data |-> <<>>, size |-> 0]
        ELSE [err |-> "nil", data |-> ReadAtBytes(f, dLen, off + EntryHeaderSize),
              size |-> EntryHeaderSize + dLen]
readEntryAt(f, open, off, maxSize) ==
    LET headBuf == ReadAtBytes(f, EntryHeaderSize, off)
        dLenWord == SubSeq(headBuf, 2, 5)
        dLen == Uint32(dLenWord)
        data == ReadAtBytes(f, dLen, off + EntryHeaderSize)
    IN  IF ~open THEN [err |-> "ErrClosed", data |-> <<>>, size |-> 0]
        ELSE IF ~ReadAtOk(f, EntryHeaderSize, off)
        THEN [err |-> "EOF", data |-> <<>>, size |-> 0]
        ELSE IF WordExceeds(dLenWord, maxSize)
        THEN [err |-> "ErrEntryTooLarge", data |-> <<>>, size |-> 0]
        ELSE IF ~ReadAtOk(f, dLen, off + EntryHeaderSize)
        THEN [err |-> "EOF", data |-> <<>>, size |-> 0]
        ELSE IF computeChecksum(headBuf[1], Data(data)) # SubSeq(headBuf, 6, 9)
        THEN [err |-> "ErrCorruptedWAL", data |-> <<>>, size |-> 0]
        ELSE [err |-> "nil", data |-> data, size |-> EntryHeaderSize + dLen]

\* readEntryAt counts a checksum mismatch in metrics.Corruptions
CountCorruption(m, err) ==
    IF err = "ErrCorruptedWAL" THEN [m EXCEPT !.Corruptions = @ + 1] ELSE m

(***************************************************************************)
(* main.go recover: the scan loop from offset `off`, next index `nextIdx`, *)
(* index so far `idx`, `corr` checksum mismatches so far.  The result is   *)
(* the handle's fields after the loop and the file as the loop leaves it.  *)
(***************************************************************************)
RECURSIVE RecoverScan(_, _, _, _, _, _)
RecoverScan(f, off, nextIdx, idx, corr, maxSize) ==
    LET r == readEntryAt(f, TRUE, off, maxSize)
    IN  IF r.err # "nil"
        THEN [file |-> IF r.err # "EOF" THEN FileTruncate(f, off) ELSE f,
              index |-> idx, offset |-> off, nextIndex |-> nextIdx,
              corruptions |-> IF r.err = "ErrCorruptedWAL" THEN corr + 1 ELSE corr]
        ELSE RecoverScan(f, off + r.size, nextIdx + 1,
                         Append(idx, [Index |-> nextIdx, Offset |-> off]), corr, maxSize)

\* main.go recover, the header check: "nil", or the error open fails with
RecoverHeaderErr(f) ==
    IF ~ReadAtOk(f, WALFileHeaderSize, 0) THEN "EOF"
    ELSE IF SubSeq(f, 1, 4) # WALMagicNumber THEN "ErrCorruptedWAL"
    ELSE "nil"

\* wal.go NewWithConfig with main.go initialize: the outcome of opening a
\* path whose file holds f (<<>> when the file is missing or empty)
NewWithConfig(f, maxSize) ==
    IF Len(f) = 0
    THEN [err |-> "nil", file |-> FileHeader, index |-> <<>>,
          offset |-> WALFileHeaderSize, nextIndex |-> 1, corruptions |-> 0]
    ELSE IF RecoverHeaderErr(f) # "nil"
    THEN [err |-> RecoverHeaderErr(f), file |-> f, index |-> <<>>,
          offset |-> 0, nextIndex |-> 1, corruptions |-> 0]
    ELSE [err |-> "nil"] @@ RecoverScan(f, WALFileHeaderSize, 1, <<>>, 0, maxSize)

(***************************************************************************)
(* What a call made now, with no other caller running, returns.            *)
(***************************************************************************)
\* wal.go LastIndex
LastIndexOf(idx) == IF Len(idx) = 0 THEN 0 ELSE idx[Len(idx)].Index

\* wal.go GetEntry, the bounds check
GetEntryInBounds(i, idx) == ~(i = 0 \/ i > Len(idx))

\* wal.go GetEntry, the read: entry is nil when readEntryAt fails, and
\* entry.Data then dereferences nil
GetEntryRead(f, open, off, maxSize) ==
    LET r == readEntryAt(f, open, off, maxSize)
    IN  IF r.err = "nil" THEN [err |-> "nil", out |-> <<Data(r.data)>>]
        ELSE [err |-> "panic", out |-> <<>>]

GetEntryOf(i) ==
    IF ~GetEntryInBounds(i, index) THEN [err |-> "index out of bounds", out |-> <<>>]
    ELSE GetEntryRead(file, fdOpen, index[i].Offset, config.MaxEntrySize)

RECURSIVE ReadEntries(_, _, _, _, _)
\* wal.go ReadAll, the loop over the snapshot idxs from position i on
ReadEntries(f, open, idxs, i, maxSize) ==
    IF i > Len(idxs) THEN [err |-> "nil", out |-> <<>>]
    ELSE LET r == readEntryAt(f, open, idxs[i].Offset, maxSize)
             rest == ReadEntries(f, open, idxs, i + 1, maxSize)
         IN  IF r.err # "nil" THEN [err |-> r.err, out |-> <<>>]
             ELSE IF rest.err # "nil" THEN rest
             ELSE [err |-> "nil", out |-> <<Data(r.data)>> \o rest.out]

ReadAllOf == ReadEntries(file, fdOpen, index, 1, config.MaxEntrySize)

RECURSIVE EndOfFrames(_)
\* the file length of a log holding the records rs and nothing else
EndOfFrames(rs) ==
    IF rs = <<>> THEN WALFileHeaderSize
    ELSE EndOfFrames(SubSeq(rs, 1, Len(rs) - 1))
         + EntryHeaderSize + LenUint32(rs[Len(rs)])

(***************************************************************************)
(* Callers.                                                                *)
(***************************************************************************)
Idle(t) == t \in live /\ pc[t] = "idle"

\* sync.Mutex Lock: the caller goes on once no one holds the mutex
LockHeldTwice(mu) == TRUE
TryLock(mu) == mu = NoThread

Prior(t) ==
    IF live = {t}
    THEN [index |-> index, nextIndex |-> nextIndex, offset |-> offset,
          metrics |-> metrics]
    ELSE NoPrior

Start(t, c, where) ==
    /\ pc' = [pc EXCEPT ![t] = where]
    /\ call' = [call EXCEPT ![t] = c]
    /\ ret' = [ret EXCEPT ![t] = NoRet]
    /\ loc' = [loc EXCEPT ![t].prior = Prior(t)]

Return(t, c, err, out, n) ==
    /\ pc' = [pc EXCEPT ![t] = "idle"]
    /\ call' = [call EXCEPT ![t] = NoCall]
    /\ loc' = [loc EXCEPT ![t] = NoLoc]
    /\ ret' = [ret EXCEPT ![t] = Result(c, err, out, n)]

Goto(t, where) ==
    /\ pc' = [pc EXCEPT ![t] = where]
    /\ UNCHANGED <<call, loc, ret>>

(***************************************************************************)
(* wal.go Append (and the Append of AppendAndSync).                        *)
(***************************************************************************)
\* the checks before the lock: "nil" or the error returned
NilAsEmptyAppendCheck(isClosed, data, maxSize) ==
    IF isClosed = 1 THEN "ErrWALClosed"
    ELSE IF LenUint32(data) > maxSize THEN "ErrEntryTooLarge"
    ELSE "nil"
ClosedLastAppendCheck(isClosed, data, maxSize) ==
    IF data.nil THEN "data is nil"
    ELSE IF LenUint32(data) > maxSize THEN "ErrEntryTooLarge"
    ELSE IF isClosed = 1 THEN "ErrWALClosed"
    ELSE "nil"
AppendCheck(isClosed, data, maxSize) ==
    IF isClosed = 1 THEN "ErrWALClosed"
    ELSE IF data.nil THEN "data is nil"
    ELSE IF LenUint32(data) > maxSize THEN "ErrEntryTooLarge"
    ELSE "nil"

\* the run's bounds: Append and Sync calls that may still start
MayAppend == spent.appends < limits.appends
MaySync == spent.syncs < limits.syncs
\* and reads, while metrics.Corruptions is below its bound
MayRead == metrics.Corruptions < limits.corruptions

AppendCall(t, op, data) ==
    LET c == [op |-> op, data |-> data, idx |-> 0]
        e == AppendCheck(closed, data, config.MaxEntrySize)
    IN  /\ Idle(t) /\ ~panicked
        /\ IF e # "nil"
           THEN /\ Return(t, c, e, <<>>, 0)
                /\ UNCHANGED spent
           ELSE /\ MayAppend
                /\ op = "AppendAndSync" => MaySync
                /\ spent' = [spent EXCEPT
                                 !.appends = @ + 1,
                                 !.syncs = @ + IF op = "AppendAndSync" THEN 1 ELSE 0]
                /\ Start(t, c, "a_lock")
        /\ UNCHANGED <<fileVars, handleVars, lockVars, panicked, openErr, opens,
                       damaged, now, histVars, envVars>>

CallAppend(t) == \E data \in inputs : AppendCall(t, "Append", data)
CallAppendAndSync(t) == \E data \in inputs : AppendCall(t, "AppendAndSync", data)

AppendLock(t) ==
    /\ pc[t] = "a_lock" /\ ~panicked
    /\ TryLock(writeMu)
    /\ writeMu' = t
    /\ Goto(t, "a_write")
    /\ UNCHANGED <<fileVars, handleVars, indexMu, readMu, runVars, histVars, envVars>>

\* file.Write(encoded) at the descriptor's position, then w.offset += n
AppendWrite(t) ==
    LET encoded == Frame(call[t].data)
    IN  /\ pc[t] = "a_write" /\ ~panicked
        /\ IF ~fdOpen
           THEN /\ writeMu' = NoThread
                /\ Return(t, call[t], "ErrClosed", <<>>, 0)
                /\ UNCHANGED <<fileVars, offset, disk>>
           ELSE /\ file' = FileWrite(file, cursor, encoded)
                /\ disk' = Durable(Written(disk, cursor, encoded))
                /\ cursor' = cursor + Len(encoded)
                /\ offset' = offset + Len(encoded)
                /\ pc' = [pc EXCEPT ![t] = "a_index"]
                /\ loc' = [loc EXCEPT ![t].off = offset]
                /\ UNCHANGED <<fdOpen, writeMu, call, ret>>
        /\ UNCHANGED <<closed, index, nextIndex, metrics, indexMu, readMu,
                       runVars, recs, seen, trunc, envVars>>

\* the index entry under indexMu, then nextIndex and the counters
StaleOffsetIndexEntry(next, entryOffset) == [Index |-> next, Offset |-> entryOffset + 1]
IndexEntry(next, entryOffset) == [Index |-> next, Offset |-> entryOffset]

\* w.nextIndex++
SameNextIndex(next) == next
SkippingNextIndexAfter(next) == next + 2
NextIndexAfter(next) == next + 1

AppendIndex(t) ==
    /\ pc[t] = "a_index" /\ ~panicked
    /\ indexMu = NoThread
    /\ index' = Append(index, IndexEntry(nextIndex, loc[t].off))
    /\ nextIndex' = NextIndexAfter(nextIndex)
    /\ metrics' = [metrics EXCEPT !.WriteCount = @ + 1,
                                  !.BytesWritten = @ + (offset - loc[t].off)]
    /\ recs' = Append(recs, call[t].data)
    /\ IF call[t].op = "AppendAndSync"
       THEN /\ pc' = [pc EXCEPT ![t] = "s_lock"]
            /\ loc' = [loc EXCEPT ![t] = [NoLoc EXCEPT !.prior = loc[t].prior]]
            /\ UNCHANGED <<call, ret>>
       ELSE Return(t, call[t], "nil", <<>>, 0)
    /\ writeMu' = NoThread
    /\ UNCHANGED <<fileVars, closed, offset, indexMu, readMu, runVars, seen, disk,
                   envVars>>
    /\ trunc' = [trunc EXCEPT !.appends = @ + IF trunc.idx = 0 THEN 0 ELSE 1]

(***************************************************************************)
(* wal.go Sync (and the Sync of AppendAndSync and of Close).               *)
(***************************************************************************)
\* a call of Sync starts by taking writeMu
CallSync(t) ==
    /\ Idle(t) /\ ~panicked
    /\ MaySync
    /\ TryLock(writeMu)
    /\ writeMu' = t
    /\ spent' = [spent EXCEPT !.syncs = @ + 1]
    /\ Start(t, [op |-> "Sync", data |-> NilData, idx |-> 0], "s_sync")
    /\ UNCHANGED <<fileVars, handleVars, indexMu, readMu, panicked, openErr, opens,
                   damaged, now, histVars, envVars>>

\* the Sync of AppendAndSync and of Close takes writeMu
SyncLock(t) ==
    /\ pc[t] = "s_lock" /\ ~panicked
    /\ TryLock(writeMu)
    /\ writeMu' = t
    /\ Goto(t, "s_sync")
    /\ UNCHANGED <<fileVars, handleVars, indexMu, readMu, runVars, histVars, envVars>>

\* the sync counter and the last-sync timestamp
UncountedSyncMetrics(m, time) == [m EXCEPT !.LastSyncTime = time]
SyncMetrics(m, time) == [m EXCEPT !.SyncCount = @ + 1, !.LastSyncTime = time]

\* file.Sync fails on a closed descriptor; the counters move either way
SyncRun(t) ==
    /\ pc[t] = "s_sync" /\ ~panicked
    /\ now' = now + 1
    /\ metrics' = SyncMetrics(metrics, now + 1)
    /\ writeMu' = NoThread
    /\ IF call[t].op = "Close"
       THEN Goto(t, "c_close")
       ELSE Return(t, call[t], IF fdOpen THEN "nil" ELSE "ErrClosed", <<>>, 0)
    /\ disk' = IF ~fdOpen THEN disk
               ELSE IF call[t].op = "Close"
               THEN Durable(FileSync(disk, file, disk.acked))
               ELSE Durable(FileSync(disk, file, Len(recs)))
    /\ UNCHANGED <<fileVars, closed, index, nextIndex, offset, indexMu, readMu,
                   panicked, openErr, opens, damaged, spent, recs, seen, trunc, envVars>>

(***************************************************************************)
(* wal.go GetEntry, ReadAll, LastIndex.                                    *)
(***************************************************************************)
\* a call of GetEntry starts with the lookup under indexMu.RLock
CallGetEntry(t) ==
    \E i \in 0..(Len(index) + 2) :
        LET c == [op |-> "GetEntry", data |-> NilData, idx |-> i]
        IN  /\ Idle(t) /\ ~panicked
            /\ indexMu = NoThread
            /\ IF ~GetEntryInBounds(i, index)
               THEN Return(t, c, "index out of bounds", <<>>, 0)
               ELSE /\ pc' = [pc EXCEPT ![t] = "g_read"]
                    /\ call' = [call EXCEPT ![t] = c]
                    /\ loc' = [loc EXCEPT ![t].indices = <<index[i]>>,
                                           ![t].snap = IF i <= Len(recs) THEN <<recs[i]>>
                                                     ELSE <<>>]
                    /\ ret' = [ret EXCEPT ![t] = NoRet]
            /\ UNCHANGED <<fileVars, handleVars, lockVars, runVars, histVars, envVars>>

\* the read under readMu.RLock
GetEntryFrame(t) ==
    LET off == loc[t].indices[1].Offset
        r == GetEntryRead(file, fdOpen, off, config.MaxEntrySize)
    IN  /\ pc[t] = "g_read" /\ ~panicked
        /\ metrics' = CountCorruption(metrics,
                          readEntryAt(file, fdOpen, off, config.MaxEntrySize).err)
        /\ panicked' = (r.err = "panic")
        /\ Return(t, call[t], r.err, r.out, 0)
        /\ UNCHANGED <<fileVars, closed, index, nextIndex, offset, lockVars,
                       openErr, opens, damaged, spent, now, histVars, envVars>>

\* a call of ReadAll starts with the snapshot of the index under indexMu.RLock
CallReadAll(t) ==
    /\ Idle(t) /\ ~panicked
    /\ MayRead
    /\ indexMu = NoThread
    /\ pc' = [pc EXCEPT ![t] = "r_read"]
    /\ call' = [call EXCEPT ![t] = [op |-> "ReadAll", data |-> NilData, idx |-> 0]]
    /\ loc' = [loc EXCEPT ![t].indices = index, ![t].snap = recs]
    /\ ret' = [ret EXCEPT ![t] = NoRet]
    /\ UNCHANGED <<fileVars, handleVars, lockVars, runVars, histVars, envVars>>

\* one turn of the loop under readMu.RLock, or the return after it
ReadAllFrame(t) ==
    LET i == Len(loc[t].results) + 1
        r == readEntryAt(file, fdOpen, loc[t].indices[i].Offset, config.MaxEntrySize)
    IN  /\ pc[t] = "r_read" /\ ~panicked
        /\ IF i > Len(loc[t].indices)
           THEN /\ readMu' = readMu \ {t}
                /\ Return(t, call[t], "nil", loc[t].results, 0)
                /\ UNCHANGED metrics
           ELSE IF r.err # "nil"
           THEN /\ readMu' = readMu \ {t}
                /\ metrics' = CountCorruption(metrics, r.err)
                /\ Return(t, call[t], r.err, <<>>, i)
           ELSE /\ readMu' = readMu \cup {t}
                /\ loc' = [loc EXCEPT ![t].results = Append(@, Data(r.data))]
                /\ UNCHANGED <<pc, call, ret, metrics>>
        /\ UNCHANGED <<fileVars, closed, index, nextIndex, offset, writeMu, indexMu,
                       runVars, histVars, envVars>>

\* LastIndex is one read under indexMu.RLock
CallLastIndex(t) ==
    /\ Idle(t) /\ ~panicked
    /\ indexMu = NoThread
    /\ Return(t, [op |-> "LastIndex", data |-> NilData, idx |-> 0], "nil", <<>>,
              LastIndexOf(index))
    /\ UNCHANGED <<fileVars, handleVars, lockVars, runVars, histVars, envVars>>

(***************************************************************************)
(* main.go TruncateFromIndex.                                              *)
(***************************************************************************)
CallTruncate(t) ==
    \E i \in 0..(Len(index) + 2) :
        LET c == [op |-> "TruncateFromIndex", data |-> NilData, idx |-> i]
        IN  /\ Idle(t) /\ ~panicked
            /\ IF closed = 1 THEN Return(t, c, "ErrWALClosed", <<>>, 0)
               ELSE Start(t, c, "t_lockw")
            /\ UNCHANGED <<fileVars, handleVars, lockVars, runVars, histVars, envVars>>

TruncateLockWrite(t) ==
    /\ pc[t] = "t_lockw" /\ ~panicked
    /\ TryLock(writeMu)
    /\ writeMu' = t
    /\ Goto(t, "t_locki")
    /\ UNCHANGED <<fileVars, handleVars, indexMu, readMu, runVars, histVars, envVars>>

\* step 1, the validation
TruncateIndexValid(i, idx) == ~(i = 0 \/ i > Len(idx))

\* the error of an index that fails the validation
SilentTruncateIndexErr == "nil"
TruncateIndexErr == "invalid truncate index"

\* indexMu.Lock, then the validation
TruncateLockIndex(t) ==
    /\ pc[t] = "t_locki" /\ ~panicked
    /\ indexMu = NoThread
    /\ IF TruncateIndexValid(call[t].idx, index)
       THEN /\ indexMu' = t
            /\ Goto(t, "t_trunc")
            /\ UNCHANGED writeMu
       ELSE /\ indexMu' = NoThread
            /\ writeMu' = NoThread
            /\ Return(t, call[t], TruncateIndexErr, <<>>, 0)
    /\ UNCHANGED <<fileVars, handleVars, readMu, runVars, histVars, envVars>>

\* step 2, the offset of the first entry to remove
KeepOneMoreTruncateOffset(i, idx, end) == IF i < Len(idx) THEN idx[i + 1].Offset ELSE end
TruncateOffset(i, idx, end) == idx[i].Offset

\* step 3, file.Truncate
TruncateFile(t) ==
    /\ pc[t] = "t_trunc" /\ ~panicked
    /\ IF ~fdOpen
       THEN /\ indexMu' = NoThread
            /\ writeMu' = NoThread
            /\ Return(t, call[t], "ErrClosed", <<>>, 0)
            /\ UNCHANGED <<file, disk>>
       ELSE /\ file' = FileTruncate(file, TruncateOffset(call[t].idx, index, offset))
            /\ disk' = Durable(Shrunk(disk,
                                      TruncateOffset(call[t].idx, index, offset),
                                      call[t].idx - 1))
            /\ Goto(t, "t_sync")
            /\ UNCHANGED <<writeMu, indexMu>>
    /\ UNCHANGED <<fdOpen, cursor, handleVars, readMu, runVars, recs, seen, trunc,
                   envVars>>

\* step 4, file.Sync
TruncateSync(t) ==
    /\ pc[t] = "t_sync" /\ ~panicked
    /\ IF ~fdOpen
       THEN /\ indexMu' = NoThread
            /\ writeMu' = NoThread
            /\ Return(t, call[t], "ErrClosed", <<>>, 0)
            /\ UNCHANGED disk
       ELSE /\ Goto(t, "t_update")
            /\ disk' = Durable(Synced(file, disk.acked))
            /\ UNCHANGED <<writeMu, indexMu>>
    /\ UNCHANGED <<fileVars, handleVars, readMu, runVars, recs, seen, trunc, envVars>>

\* step 6, file.Seek(w.offset, 0): the descriptor's new position
NoSeek(cur, to) == cur
Seek(cur, to) == to

\* steps 5 and 6, the in-memory state and file.Seek
TruncateUpdate(t) ==
    LET i == call[t].idx
        truncateOffset == TruncateOffset(i, index, offset)
    IN  /\ pc[t] = "t_update" /\ ~panicked
        /\ index' = SubSeq(index, 1, i - 1)
        /\ nextIndex' = i
        /\ offset' = truncateOffset
        /\ cursor' = IF fdOpen THEN Seek(cursor, truncateOffset) ELSE cursor
        /\ recs' = SubSeq(recs, 1, i - 1)
        /\ trunc' = [idx |-> i, off |-> EndOfFrames(SubSeq(recs, 1, i - 1)), appends |-> 0]
        /\ indexMu' = NoThread
        /\ writeMu' = NoThread
        /\ Return(t, call[t], IF fdOpen THEN "nil" ELSE "ErrClosed", <<>>, 0)
        /\ UNCHANGED <<file, fdOpen, closed, metrics, readMu, runVars, seen, disk,
                       envVars>>

(***************************************************************************)
(* The error returns of Append and TruncateFromIndex when a call on the    *)
(* open file fails with an I/O error.                                      *)
(***************************************************************************)
MayFault == spent.faults < limits.faults

\* file.Write returns an error after writing n bytes of the frame, n less
\* than its length: Append returns it, w.offset as it was
AppendWriteFails(t) ==
    LET encoded == Frame(call[t].data)
    IN  /\ pc[t] = "a_write" /\ ~panicked
        /\ fdOpen /\ MayFault
        /\ \E n \in 0..(Len(encoded) - 1) :
               /\ file' = IF n = 0 THEN file
                          ELSE FileWrite(file, cursor, SubSeq(encoded, 1, n))
               /\ disk' = IF n = 0 THEN disk
                          ELSE Durable(Written(disk, cursor, SubSeq(encoded, 1, n)))
               /\ cursor' = cursor + n
        /\ writeMu' = NoThread
        /\ Return(t, call[t], "EIO", <<>>, 0)
        /\ spent' = [spent EXCEPT !.faults = @ + 1]
        /\ UNCHANGED <<fdOpen, handleVars, indexMu, readMu, panicked, openErr, opens,
                       damaged, now, recs, seen, trunc, envVars>>

\* step 3 fails: file.Truncate returns an error
TruncateFileFails(t) ==
    /\ pc[t] = "t_trunc" /\ ~panicked
    /\ fdOpen /\ MayFault
    /\ indexMu' = NoThread
    /\ writeMu' = NoThread
    /\ Return(t, call[t], "EIO", <<>>, 0)
    /\ spent' = [spent EXCEPT !.faults = @ + 1]
    /\ UNCHANGED <<fileVars, handleVars, readMu, panicked, openErr, opens, damaged,
                   now, histVars, envVars>>

\* step 4 fails: file.Sync returns an error, the file already shrunk
TruncateSyncFails(t) ==
    /\ pc[t] = "t_sync" /\ ~panicked
    /\ fdOpen /\ MayFault
    /\ indexMu' = NoThread
    /\ writeMu' = NoThread
    /\ Return(t, call[t], "EIO", <<>>, 0)
    /\ spent' = [spent EXCEPT !.faults = @ + 1]
    /\ UNCHANGED <<fileVars, handleVars, readMu, panicked, openErr, opens, damaged,
                   now, histVars, envVars>>

\* step 6 fails: file.Seek returns an error, after step 5 changed the
\* in-memory state
TruncateSeekFails(t) ==
    LET i == call[t].idx
        truncateOffset == TruncateOffset(i, index, offset)
    IN  /\ pc[t] = "t_update" /\ ~panicked
        /\ fdOpen /\ MayFault
        /\ index' = SubSeq(index, 1, i - 1)
        /\ nextIndex' = i
        /\ offset' = truncateOffset
        /\ recs' = SubSeq(recs, 1, i - 1)
        /\ trunc' = [idx |-> i, off |-> EndOfFrames(SubSeq(recs, 1, i - 1)), appends |-> 0]
        /\ indexMu' = NoThread
        /\ writeMu' = NoThread
        /\ Return(t, call[t], "EIO", <<>>, 0)
        /\ spent' = [spent EXCEPT !.faults = @ + 1]
        /\ UNCHANGED <<fileVars, closed, metrics, readMu, panicked, openErr, opens,
                       damaged, now, seen, disk, envVars>>

(***************************************************************************)
(* wal.go Close.                                                           *)
(***************************************************************************)
\* the compare-and-swap of w.closed; a later Close returns nil at once
CallClose(t) ==
    LET c == [op |-> "Close", data |-> NilData, idx |-> 0]
    IN  /\ Idle(t) /\ ~panicked
        /\ IF closed = 1
           THEN /\ Return(t, c, "nil", <<>>, 0)
                /\ UNCHANGED <<closed, seen>>
           ELSE /\ closed' = 1
                /\ seen' = [last |-> LastIndexOf(index), all |-> ReadAllOf]
                /\ Start(t, c, "s_lock")
        /\ UNCHANGED <<fileVars, index, nextIndex, offset, metrics, lockVars,
                       runVars, recs, trunc, disk, envVars>>

\* file.Close
CloseFile(t) ==
    /\ pc[t] = "c_close" /\ ~panicked
    /\ fdOpen' = FALSE
    /\ Return(t, call[t], IF fdOpen THEN "nil" ELSE "ErrClosed", <<>>, 0)
    /\ UNCHANGED <<file, cursor, handleVars, lockVars, runVars, histVars, envVars>>

(***************************************************************************)
(* Opening the path once the handle is closed: NewWithConfig on the file   *)
(* f found at the path makes a new handle.                                 *)
(***************************************************************************)
OpenFile(f) ==
    LET o == NewWithConfig(f, config.MaxEntrySize)
    IN  /\ ~fdOpen /\ closed = 1 /\ ~panicked
        /\ \A t \in live : Idle(t)
        /\ opens < limits.opens
        /\ opens' = opens + 1
        /\ openErr' = o.err
        /\ file' = o.file
        /\ disk' = Durable(Synced(o.file, disk.acked))
        /\ IF o.err = "nil"
           THEN /\ fdOpen' = TRUE
                /\ cursor' = o.offset
                /\ closed' = 0
                /\ index' = o.index
                /\ nextIndex' = o.nextIndex
                /\ offset' = o.offset
                /\ metrics' = [NoMetrics EXCEPT !.Corruptions = o.corruptions]
                /\ ret' = [t \in Threads |-> NoRet]
           ELSE UNCHANGED <<fdOpen, cursor, handleVars, ret>>
        /\ UNCHANGED <<lockVars, pc, call, loc, panicked, spent, now, seen, trunc,
                       envVars>>

Reopen == OpenFile(file) /\ UNCHANGED <<damaged, recs>>

(***************************************************************************)
(* Opening the path after the trailing frame was damaged while no handle   *)
(* was open: an unclean shutdown that tore the last write, or a bit that   *)
(* changed on disk.                                                        *)
(***************************************************************************)
LastFrameStart == EndOfFrames(SubSeq(recs, 1, Len(recs) - 1))

FlipMasks == {1, 2, 4, 8, 16, 32, 64, 128}

\* the damage follows the return of Close
MayDamage ==
    /\ ~fdOpen /\ closed = 1
    /\ \E t \in live : pc[t] = "idle" /\ ret[t].op = "Close"
    /\ damaged < limits.damage
    /\ recs # <<>>
    /\ Len(file) = EndOfFrames(recs)

TearTail ==
    /\ MayDamage
    /\ \E cut \in (LastFrameStart + 1)..(Len(file) - 1) :
           OpenFile(SubSeq(file, 1, cut))
    /\ recs' = SubSeq(recs, 1, Len(recs) - 1)
    /\ damaged' = damaged + 1

FlipByte ==
    /\ MayDamage
    /\ \E at \in (LastFrameStart + 1)..Len(file), mask \in FlipMasks :
           OpenFile([file EXCEPT ![at] = XorByte[@][mask]])
    /\ recs' = SubSeq(recs, 1, Len(recs) - 1)
    /\ damaged' = damaged + 1

(***************************************************************************)
(* While no handle is open, the file at the path is replaced by one that   *)
(* is not a log: its first four bytes differ from the magic constant in    *)
(* one bit, and it ends after the magic, inside the header, after the      *)
(* header or where the log ended.                                          *)
(***************************************************************************)
ForeignLengths ==
    {n \in {4, WALFileHeaderSize - 1, WALFileHeaderSize, Len(file)} : n <= Len(file)}

ReplaceFile ==
    /\ ~fdOpen /\ closed = 1 /\ ~panicked
    /\ \A t \in live : Idle(t)
    /\ \E t \in live : ret[t].op = "Close"
    /\ damaged < limits.damage
    /\ damaged' = damaged + 1
    /\ \E at \in 1..4, mask \in FlipMasks, n \in ForeignLengths :
           /\ file' = SubSeq([file EXCEPT ![at] = XorByte[@][mask]], 1, n)
           /\ disk' = Durable(Synced(file', disk.acked))
    /\ UNCHANGED <<fdOpen, cursor, handleVars, lockVars, threadVars, panicked,
                   openErr, opens, spent, now, recs, seen, trunc, envVars>>

(***************************************************************************)
(* A crash while the handle is open: every caller stops where it is, the   *)
(* file keeps its durable bytes and any part of the pending operations,    *)
(* and the path is opened again.                                           *)
(***************************************************************************)
\* the records of the log when the crash happens: an Append whose frame is
\* written and whose index entry is not yet made counts as appended
PreCrashLog ==
    IF \E t \in live : pc[t] = "a_index"
    THEN Append(recs, call[CHOOSE t \in live : pc[t] = "a_index"].data)
    ELSE recs

CrashOpen ==
    /\ fdOpen /\ ~panicked
    /\ spent.crashes < limits.crashes
    /\ spent' = [spent EXCEPT !.crashes = @ + 1]
    /\ opens' = opens + 1
    /\ \E f \in CrashFiles(disk.stable, disk.pending) :
           LET o == NewWithConfig(f, config.MaxEntrySize)
               kept == IF Len(o.index) < Len(PreCrashLog) THEN Len(o.index)
                       ELSE Len(PreCrashLog)
           IN  /\ file' = o.file
               /\ disk' = Synced(o.file, disk.acked)
               /\ openErr' = o.err
               /\ fdOpen' = (o.err = "nil")
               /\ closed' = IF o.err = "nil" THEN 0 ELSE 1
               /\ cursor' = o.offset
               /\ index' = o.index
               /\ nextIndex' = o.nextIndex
               /\ offset' = o.offset
               /\ metrics' = [NoMetrics EXCEPT !.Corruptions = o.corruptions]
               /\ recs' = SubSeq(PreCrashLog, 1, kept)
    /\ writeMu' = NoThread /\ indexMu' = NoThread /\ readMu' = {}
    /\ pc' = [t \in Threads |-> "idle"]
    /\ call' = [t \in Threads |-> NoCall]
    /\ loc' = [t \in Threads |-> NoLoc]
    /\ ret' = [t \in Threads |-> NoRet]
    /\ trunc' = [idx |-> 0, off |-> 0, appends |-> 0]
    /\ UNCHANGED <<panicked, damaged, now, seen, envVars>>

(***************************************************************************)
(* Runs.                                                                   *)
(***************************************************************************)
\* n bytes b, b + 1, ...
Bytes(n, b) == [i \in 1..n |-> b + i - 1]

\* the state after NewWithConfig on a path with no file
InitWith(cfg, in, callers, lim) ==
    LET o == NewWithConfig(<<>>, cfg.MaxEntrySize)
    IN  /\ file = o.file /\ fdOpen = TRUE /\ cursor = o.offset
        /\ closed = 0 /\ index = o.index /\ nextIndex = o.nextIndex
        /\ offset = o.offset /\ metrics = NoMetrics
        /\ writeMu = NoThread /\ indexMu = NoThread /\ readMu = {}
        /\ pc = [t \in Threads |-> "idle"]
        /\ call = [t \in Threads |-> NoCall]
        /\ loc = [t \in Threads |-> NoLoc]
        /\ ret = [t \in Threads |-> NoRet]
        /\ panicked = FALSE /\ openErr = "nil" /\ opens = 1 /\ damaged = 0 /\ now = 0
        /\ spent = [appends |-> 0, syncs |-> 0, crashes |-> 0, faults |-> 0]
        /\ recs = <<>> /\ seen = [last |-> 0, all |-> [err |-> "nil", out |-> <<>>]]
        /\ trunc = [idx |-> 0, off |-> 0, appends |-> 0]
        /\ disk = Synced(o.file, 0)
        /\ config = cfg /\ inputs = in /\ live = callers /\ limits = lim

Next ==
    \/ \E t \in Threads : CallAppend(t)
    \/ \E t \in Threads : CallAppendAndSync(t)
    \/ \E t \in Threads : AppendLock(t)
    \/ \E t \in Threads : AppendWrite(t)
    \/ \E t \in Threads : AppendIndex(t)
    \/ \E t \in Threads : CallSync(t)
    \/ \E t \in Threads : SyncLock(t)
    \/ \E t \in Threads : SyncRun(t)
    \/ \E t \in Threads : CallGetEntry(t)
    \/ \E t \in Threads : GetEntryFrame(t)
    \/ \E t \in Threads : CallReadAll(t)
    \/ \E t \in Threads : ReadAllFrame(t)
    \/ \E t \in Threads : CallLastIndex(t)
    \/ \E t \in Threads : CallTruncate(t)
    \/ \E t \in Threads : TruncateLockWrite(t)
    \/ \E t \in Threads : TruncateLockIndex(t)
    \/ \E t \in Threads : TruncateFile(t)
    \/ \E t \in Threads : TruncateSync(t)
    \/ \E t \in Threads : TruncateUpdate(t)
    \/ \E t \in Threads : CallClose(t)
    \/ \E t \in Threads : CloseFile(t)
    \/ Reopen

\* the same with damage to the closed file
NextDamage == Next \/ TearTail \/ FlipByte

\* one caller; payloads of every length up to one above the limit
MaxEntrySize == 1
MaxAppends == 2
MaxSyncs == 1
MaxOpens == 2
MaxCorruptions == 2

Payloads(m) == {Data(Bytes(n, 97)) : n \in 0..(m + 1)} \cup {NilData}

Init ==
    InitWith([MaxEntrySize |-> MaxEntrySize], Payloads(MaxEntrySize), {"t1"},
             [appends |-> MaxAppends, syncs |-> MaxSyncs, opens |-> MaxOpens,
              damage |-> 0, corruptions |-> MaxCorruptions, crashes |-> 0])

Spec == Init /\ [][Next]_vars

\* callers at once; one payload
ConcCallers == 2
ConcAppends == 2
ConcSyncs == 1
ConcOpens == 2

Callers(n) == {t \in Threads : \E i \in 1..n : t = <<"t1", "t2", "t3">>[i]}

InitConc ==
    InitWith([MaxEntrySize |-> MaxEntrySize], {Data(Bytes(MaxEntrySize, 97))},
             Callers(ConcCallers),
             [appends |-> ConcAppends, syncs |-> ConcSyncs, opens |-> ConcOpens,
              damage |-> 0, corruptions |-> MaxCorruptions, crashes |-> 0])

SpecConc == InitConc /\ [][Next]_vars

\* callers at once that append to and read a fresh log; payloads of every
\* length up to the limit
NextAppends ==
    \/ \E t \in Threads : CallAppend(t)
    \/ \E t \in Threads : CallAppendAndSync(t)
    \/ \E t \in Threads : AppendLock(t)
    \/ \E t \in Threads : AppendWrite(t)
    \/ \E t \in Threads : AppendIndex(t)
    \/ \E t \in Threads : SyncLock(t)
    \/ \E t \in Threads : SyncRun(t)
    \/ \E t \in Threads : CallReadAll(t)
    \/ \E t \in Threads : ReadAllFrame(t)
    \/ \E t \in Threads : CallLastIndex(t)

InitAppends ==
    InitWith([MaxEntrySize |-> MaxEntrySize],
             {Data(Bytes(n, 97)) : n \in 0..MaxEntrySize},
             Callers(ConcCallers),
             [appends |-> ConcAppends, syncs |-> ConcSyncs, opens |-> ConcOpens,
              damage |-> 0, corruptions |-> MaxCorruptions, crashes |-> 0])

SpecAppends == InitAppends /\ [][NextAppends]_vars

\* callers at once that append, truncate and read; two payloads
NextSnapshot ==
    \/ \E t \in Threads : CallAppend(t)
    \/ \E t \in Threads : AppendLock(t)
    \/ \E t \in Threads : AppendWrite(t)
    \/ \E t \in Threads : AppendIndex(t)
    \/ \E t \in Threads : CallGetEntry(t)
    \/ \E t \in Threads : GetEntryFrame(t)
    \/ \E t \in Threads : CallReadAll(t)
    \/ \E t \in Threads : ReadAllFrame(t)
    \/ \E t \in Threads : CallTruncate(t)
    \/ \E t \in Threads : TruncateLockWrite(t)
    \/ \E t \in Threads : TruncateLockIndex(t)
    \/ \E t \in Threads : TruncateFile(t)
    \/ \E t \in Threads : TruncateSync(t)
    \/ \E t \in Threads : TruncateUpdate(t)

InitSnapshot ==
    InitWith([MaxEntrySize |-> MaxEntrySize],
             {Data(Bytes(MaxEntrySize, 97)), Data(Bytes(MaxEntrySize, 98))},
             Callers(ConcCallers),
             [appends |-> ConcAppends, syncs |-> ConcSyncs, opens |-> ConcOpens,
              damage |-> 0, corruptions |-> MaxCorruptions, crashes |-> 0])

SpecSnapshot == InitSnapshot /\ [][NextSnapshot]_vars

\* one caller, and payloads of HugeBlocks * 2^32 bytes and more
HugeBlocks == 1

InitHuge ==
    InitWith([MaxEntrySize |-> MaxEntrySize],
             Payloads(MaxEntrySize)
                 \cup {HugeData(Bytes(n, 97), HugeBlocks) : n \in 0..MaxEntrySize},
             {"t1"},
             [appends |-> MaxAppends, syncs |-> MaxSyncs, opens |-> MaxOpens,
              damage |-> 0, corruptions |-> MaxCorruptions, crashes |-> 0])

SpecHuge == InitHuge /\ [][Next]_vars

\* the same run, and the closed file may be damaged
MaxDamage == 1

InitDamage ==
    InitWith([MaxEntrySize |-> MaxEntrySize], Payloads(MaxEntrySize), {"t1"},
             [appends |-> MaxAppends, syncs |-> MaxSyncs, opens |-> MaxOpens,
              damage |-> MaxDamage, corruptions |-> MaxCorruptions, crashes |-> 0])

SpecDamage == InitDamage /\ [][NextDamage]_vars

\* a run on a log whose records may hold a payload that is itself the bytes
\* of a frame, opened three times, the closed file damaged once
FramePayloadSize == 10
TailOpens == 3

\* a payload of FramePayloadSize bytes: the frame of the empty record and
\* one more byte
FramePayload == Data(Frame(Data(<<>>)) \o <<0>>)

InitTail ==
    InitWith([MaxEntrySize |-> FramePayloadSize], {Data(<<>>), FramePayload}, {"t1"},
             [appends |-> MaxAppends, syncs |-> MaxSyncs, opens |-> TailOpens,
              damage |-> MaxDamage, corruptions |-> MaxCorruptions, crashes |-> 0])

SpecTail == InitTail /\ [][NextDamage]_vars

\* one caller that appends, closes and opens again, and a file that is not
\* a log put at the path
NextForeign ==
    \/ \E t \in Threads : CallAppend(t)
    \/ \E t \in Threads : AppendLock(t)
    \/ \E t \in Threads : AppendWrite(t)
    \/ \E t \in Threads : AppendIndex(t)
    \/ \E t \in Threads : CallLastIndex(t)
    \/ \E t \in Threads : CallClose(t)
    \/ \E t \in Threads : SyncLock(t)
    \/ \E t \in Threads : SyncRun(t)
    \/ \E t \in Threads : CloseFile(t)
    \/ Reopen
    \/ ReplaceFile

InitForeign ==
    InitWith([MaxEntrySize |-> MaxEntrySize], Payloads(MaxEntrySize), {"t1"},
             [appends |-> MaxAppends, syncs |-> MaxSyncs, opens |-> MaxOpens,
              damage |-> MaxDamage, corruptions |-> MaxCorruptions, crashes |-> 0])

SpecForeign == InitForeign /\ [][NextForeign]_vars

\* one caller, and I/O errors
MaxFaults == 1

NextFaults ==
    \/ Next
    \/ \E t \in Threads : AppendWriteFails(t)
    \/ \E t \in Threads : TruncateFileFails(t)
    \/ \E t \in Threads : TruncateSyncFails(t)
    \/ \E t \in Threads : TruncateSeekFails(t)

InitFaults ==
    InitWith([MaxEntrySize |-> MaxEntrySize], Payloads(MaxEntrySize), {"t1"},
             [appends |-> MaxAppends, syncs |-> MaxSyncs, opens |-> MaxOpens,
              damage |-> 0, corruptions |-> MaxCorruptions, crashes |-> 0,
              faults |-> MaxFaults])

SpecFaults == InitFaults /\ [][NextFaults]_vars

\* one caller, and crashes
MaxCrashes == 1

NextCrash == Next \/ CrashOpen

InitCrash ==
    InitWith([MaxEntrySize |-> MaxEntrySize], Payloads(MaxEntrySize), {"t1"},
             [appends |-> MaxAppends, syncs |-> MaxSyncs, opens |-> MaxOpens,
              damage |-> 0, corruptions |-> MaxCorruptions, crashes |-> MaxCrashes])

SpecCrash == InitCrash /\ [][NextCrash]_vars

(***************************************************************************)
(* Properties.                                                             *)
(***************************************************************************)
AllIdle == \A t \in live : pc[t] = "idle"
Ok(out) == [err |-> "nil", out |-> out]

\* the handle's fields and the file
logState == <<file, fdOpen, cursor, closed, index, nextIndex, offset, metrics>>

\* the state NewWithConfig leaves when it opens the path again
JustOpened == AllIdle /\ fdOpen /\ closed = 0 /\ opens > 1 /\ \A t \in live : ret[t] = NoRet

\* Close has returned on this handle
CloseReturned == ~fdOpen /\ closed = 1

\* caller t takes a step of a call of op, and the index it passes
Acting(t, op) ==
    \/ call'[t].op = op /\ pc'[t] # pc[t]
    \/ ret'[t].op = op /\ ret'[t] # ret[t]
ArgIdx(t) == IF pc'[t] = "idle" THEN ret'[t].idx ELSE call'[t].idx
ArgData(t) == IF pc'[t] = "idle" THEN ret'[t].data ELSE call'[t].data

\* C1: once Append(p) has returned success on an open handle, with no Sync
\* needed, GetEntry(LastIndex()) returns p and GetEntry(i) returns the payload
\* of record i for every i in 1..LastIndex(); a GetEntry call that returns
\* success returns the payload of the record it names.
AppendReadRoundTrip ==
    \A t \in live :
        /\ (AllIdle /\ ret[t].op = "Append" /\ ret[t].err = "nil") =>
               /\ LastIndexOf(index) = Len(recs)
               /\ GetEntryOf(LastIndexOf(index)) = Ok(<<ret[t].data>>)
               /\ \A i \in 1..LastIndexOf(index) : GetEntryOf(i) = Ok(<<recs[i]>>)
        /\ (ret[t].op = "GetEntry" /\ ret[t].err = "nil") =>
               ret[t].out = <<recs[ret[t].idx]>>

\* a second Append of a payload as long as the limit has returned, no Sync
\* was ever called, and a GetEntry of the first record has returned it
AppendReadRoundTripAppended ==
    /\ AllIdle /\ ret["t1"].op = "Append" /\ ret["t1"].err = "nil"
    /\ Len(ret["t1"].data.bytes) = config.MaxEntrySize
    /\ Len(index) = 2 /\ metrics.SyncCount = 0

\* C2: when callers running at once have made n successful Appends on a
\* fresh log with no truncate, and none is in a call, LastIndex() is n, the
\* records carry the indices 1..n with no gap and no duplicate, and ReadAll
\* returns n payloads, one for each Append that succeeded.
ConcurrentAppendsIndexed ==
    (AllIdle /\ fdOpen) =>
        /\ LastIndexOf(index) = Len(recs)
        /\ metrics.WriteCount = Len(recs)
        /\ \A i \in 1..Len(index) : index[i].Index = i
        /\ ReadAllOf = Ok(recs)

\* two callers have each had an Append of a different payload succeed
ConcurrentAppendsIndexedBoth ==
    /\ AllIdle /\ fdOpen /\ Len(index) = 2
    /\ \A t \in {"t1", "t2"} : ret[t].op = "Append" /\ ret[t].err = "nil"
    /\ ret["t1"].data # ret["t2"].data

\* C3: opening the path again after Close succeeds, and LastIndex and
\* ReadAll return what they returned just before Close: every record kept,
\* in order, and no record a truncate removed.
ReopenKeepsRecords ==
    JustOpened =>
        /\ openErr = "nil"
        /\ LastIndexOf(index) = seen.last
        /\ ReadAllOf = seen.all
        /\ seen.last = Len(recs)
        /\ seen.all = Ok(recs)

\* two records were appended, the second was truncated away, and the log was
\* closed and opened again
ReopenKeepsRecordsReopened ==
    JustOpened /\ Len(recs) = 1 /\ trunc.idx = 2 /\ LastIndexOf(index) = 1

\* C4: after TruncateFromIndex(k) returned success, LastIndex() is k - 1,
\* ReadAll returns the records 1..k-1, and the file ends where old record k
\* started; the next successful Append gets index k and its frame is written
\* at exactly that offset.
TruncateSemantics ==
    \A t \in live :
        /\ (AllIdle /\ ret[t].op = "TruncateFromIndex" /\ ret[t].err = "nil") =>
               /\ trunc.idx = ret[t].idx
               /\ LastIndexOf(index) = ret[t].idx - 1
               /\ ReadAllOf = Ok(recs)
               /\ Len(file) = trunc.off
        /\ (/\ AllIdle /\ ret[t].op \in {"Append", "AppendAndSync"} /\ ret[t].err = "nil"
            /\ trunc.idx > 0 /\ trunc.appends = 1) =>
               /\ LastIndexOf(index) = trunc.idx
               /\ index[Len(index)] = [Index |-> trunc.idx, Offset |-> trunc.off]
               /\ SubSeq(file, trunc.off + 1, Len(file)) = Frame(ret[t].data)

\* a log of one record was truncated from index 1 and the Append after it
\* has returned
TruncateSemanticsAppended ==
    /\ AllIdle /\ ret["t1"].op = "Append" /\ ret["t1"].err = "nil"
    /\ trunc.idx = 1 /\ trunc.appends = 1 /\ Len(ret["t1"].data.bytes) = 1

\* C6: once Close has returned, every call of Sync, AppendAndSync, GetEntry,
\* ReadAll, Append and TruncateFromIndex fails with ErrWALClosed.
ClosedHandleRejectsEveryCall ==
    \A t \in live :
        (/\ CloseReturned /\ pc[t] = "idle"
         /\ ret[t].op \in {"Sync", "AppendAndSync", "GetEntry", "ReadAll", "Append",
                           "TruncateFromIndex"}) =>
            ret[t].err = "ErrWALClosed"

\* C7: once Close has returned, Append and TruncateFromIndex return
\* ErrWALClosed at once and Close returns success at once, and none of them
\* changes the file, the index, the write offset or any other field.
ClosedHandleRejectsWrites ==
    [][\A t \in live :
          (/\ CloseReturned /\ pc[t] = "idle"
           /\ \E op \in {"Append", "TruncateFromIndex", "Close"} : Acting(t, op)) =>
              /\ pc'[t] = "idle"
              /\ ret'[t].err = IF ret'[t].op = "Close" THEN "nil" ELSE "ErrWALClosed"
              /\ UNCHANGED logState]_vars

\* an Append of a payload above the limit was rejected on a closed handle
\* that holds a record
ClosedHandleRejectsWritesRejected ==
    /\ CloseReturned /\ Len(index) = 1
    /\ ret["t1"].op = "Append" /\ ret["t1"].err = "ErrWALClosed"
    /\ Len(ret["t1"].data.bytes) > config.MaxEntrySize

\* C8: a GetEntry call on an open handle for an index in range whose frame
\* no longer validates or cannot be read in full returns an error; the
\* process does not crash.
GetEntryNeverCrashes ==
    \A t \in live :
        (fdOpen /\ closed = 0 /\ ret[t].op = "GetEntry") => ret[t].err # "panic"

\* the length of a payload exceeds m < 2^32
LongerThan(data, m) == data.blocks > 0 \/ Len(data.bytes) > m

\* C9: an Append on an open handle of any payload longer than
\* MaxEntrySize returns ErrEntryTooLarge.
OversizedAppendRejected ==
    \A t \in live :
        (/\ pc[t] = "idle" /\ closed = 0 /\ ret[t].op \in {"Append", "AppendAndSync"}
         /\ ~ret[t].data.nil /\ LongerThan(ret[t].data, config.MaxEntrySize)) =>
            ret[t].err = "ErrEntryTooLarge"

\* C10: GetEntry(0), GetEntry(j) and TruncateFromIndex(j) for j above the
\* number of entries, and TruncateFromIndex(0), return an error and leave
\* the log unchanged.
BoundsChecks ==
    [][\A t \in live :
          (/\ Acting(t, "GetEntry") \/ Acting(t, "TruncateFromIndex")
           /\ ArgIdx(t) = 0 \/ ArgIdx(t) > Len(index)) =>
              /\ UNCHANGED logState
              /\ pc'[t] = "idle" => ret'[t].err \notin {"nil", "panic"}]_vars

\* TruncateFromIndex(3) was refused on an open log of two records
BoundsChecksRefused ==
    /\ fdOpen /\ closed = 0 /\ Len(index) = 2
    /\ ret["t1"].op = "TruncateFromIndex" /\ ret["t1"].idx = 3
    /\ ret["t1"].err = "invalid truncate index"

\* C5: opening a file whose first k frames are valid and whose last frame
\* was torn at any byte or had any one bit flipped succeeds, and the handle
\* holds exactly the k valid records: LastIndex() is k and every indexed
\* frame validates.
OpenSurvivesDamagedTail ==
    /\ openErr = "nil"
    /\ (JustOpened /\ damaged > 0) =>
           /\ LastIndexOf(index) = Len(recs)
           /\ ReadAllOf = Ok(recs)

\* a file of two frames, a bit of the second flipped, was opened: recovery
\* counted the checksum mismatch and kept the first record
OpenSurvivesDamagedTailFlipped ==
    JustOpened /\ damaged = 1 /\ metrics.Corruptions = 1 /\ LastIndexOf(index) = 1

\* C11: Append(nil) returns an error at once and changes nothing; an Append
\* of an empty payload that succeeds gets the index after the last one, its
\* frame is 9 bytes with length field 0, and GetEntry of that index returns
\* a payload of length 0.
NilPayloadVersusEmpty ==
    [][\A t \in live :
          /\ (Acting(t, "Append") /\ ArgData(t).nil) =>
                 /\ pc'[t] = "idle" /\ ret'[t].err # "nil"
                 /\ UNCHANGED logState
          /\ (/\ Acting(t, "Append") /\ ArgData(t) = Data(<<>>)
              /\ pc'[t] = "idle" /\ ret'[t].err = "nil") =>
                 /\ Len(index') = Len(index) + 1
                 /\ index'[Len(index')].Index = LastIndexOf(index) + 1
                 /\ Len(file') = index'[Len(index')].Offset + EntryHeaderSize
                 /\ SubSeq(file', Len(file') - 7, Len(file') - 4) = <<0, 0, 0, 0>>
                 /\ GetEntryInBounds(Len(index'), index')
                 /\ GetEntryRead(file', fdOpen', index'[Len(index')].Offset,
                                 config.MaxEntrySize) = Ok(<<Data(<<>>)>>)]_vars

\* an empty payload was appended after another record, and an Append of nil
\* was refused after it on the open handle
NilPayloadVersusEmptyRefused ==
    /\ fdOpen /\ closed = 0 /\ Len(recs) = 2 /\ recs[2] = Data(<<>>)
    /\ ret["t1"].op = "Append" /\ ret["t1"].data.nil /\ ret["t1"].err = "data is nil"
ReadAllReturnsSnapshot ==
    \A t \in live :
        (/\ pc[t] = "r_read" /\ call[t].op = "ReadAll"
         /\ Len(loc[t].results) = Len(loc[t].indices)) =>
            loc[t].results = loc[t].snap

\* the handle's fields when the call that caller t steps in began
PriorOf(t) == IF pc[t] = "idle" THEN Prior(t) ELSE loc[t].prior

\* C14: when Append or TruncateFromIndex returns an error, whatever the
\* cause, index, nextIndex and offset are as they were when the call began,
\* and on an open file the descriptor still stands at offset, where the next
\* Append writes; the exception is a TruncateFromIndex that fails in or
\* right after the shrinking of the file.
FailedCallKeepsState ==
    [][\A t \in live :
          (/\ Acting(t, "Append") \/ Acting(t, "TruncateFromIndex")
           /\ pc'[t] = "idle" /\ ret'[t].err # "nil") =>
              /\ index' = PriorOf(t).index
              /\ nextIndex' = PriorOf(t).nextIndex
              /\ offset' = PriorOf(t).offset
              /\ (fdOpen' /\ pc[t] \notin {"t_trunc", "t_sync"}) =>
                     cursor' = offset']_vars

\* C15: an AppendAndSync whose Append fails returns Append's error with
\* the sync counter and the last-sync timestamp as they were when the call
\* began; an AppendAndSync that succeeds, with no other caller, leaves
\* WriteCount, SyncCount and LastIndex() each one more than when it began;
\* a Sync leaves SyncCount one more and index, nextIndex, offset, WriteCount
\* and the file as they were.
AppendAndSyncComposition ==
    [][\A t \in live :
          /\ (/\ Acting(t, "AppendAndSync") /\ pc'[t] = "idle"
              /\ pc[t] \in {"idle", "a_write"}) =>
                 /\ ret'[t].err # "nil"
                 /\ pc[t] = "idle" =>
                        ret'[t].err = AppendCheck(closed, ArgData(t), config.MaxEntrySize)
                 /\ metrics'.SyncCount = PriorOf(t).metrics.SyncCount
                 /\ metrics'.LastSyncTime = PriorOf(t).metrics.LastSyncTime
          /\ (/\ Acting(t, "AppendAndSync") /\ pc'[t] = "idle"
              /\ ret'[t].err = "nil") =>
                 /\ metrics'.WriteCount = PriorOf(t).metrics.WriteCount + 1
                 /\ metrics'.SyncCount = PriorOf(t).metrics.SyncCount + 1
                 /\ LastIndexOf(index') = LastIndexOf(PriorOf(t).index) + 1
          /\ (Acting(t, "Sync") /\ pc'[t] = "idle") =>
                 /\ metrics'.SyncCount = PriorOf(t).metrics.SyncCount + 1
                 /\ metrics'.WriteCount = PriorOf(t).metrics.WriteCount
                 /\ index' = PriorOf(t).index
                 /\ nextIndex' = PriorOf(t).nextIndex
                 /\ offset' = PriorOf(t).offset
                 /\ file' = file]_vars

\* an AppendAndSync has returned success after an earlier Append
AppendAndSyncCompositionSynced ==
    /\ ret["t1"].op = "AppendAndSync" /\ ret["t1"].err = "nil"
    /\ metrics.WriteCount = 2 /\ metrics.SyncCount = 1 /\ LastIndexOf(index) = 2

\* C16: AppendAndSync is one step for other callers: while a caller is
\* between the Append and the Sync of its AppendAndSync, no Append or
\* TruncateFromIndex of another caller takes effect on the file, index,
\* nextIndex or offset.
AppendAndSyncAtomic ==
    [][(\E t \in live : /\ call[t].op = "AppendAndSync"
                        /\ pc[t] \in {"s_lock", "s_sync"}) =>
          UNCHANGED <<file, index, nextIndex, offset>>]_vars

\* C17: opening a non-empty file whose first four bytes are not the magic
\* constant fails with ErrCorruptedWAL: no handle is made, no record is
\* scanned, and the file is left as it was.
BadMagicRejected ==
    [][(/\ opens' > opens /\ Len(file) >= 4
        /\ SubSeq(file, 1, 4) # WALMagicNumber) =>
          /\ openErr' = "ErrCorruptedWAL"
          /\ ~fdOpen' /\ closed' = 1
          /\ file' = file
          /\ UNCHANGED <<index, nextIndex, offset, metrics>>]_vars

\* C18: opening a missing or empty file gives a file of exactly the 8-byte
\* header, big-endian 0x57414C21 then version 1, and a handle with index
\* empty, nextIndex 1 and offset 8; on the handle so made, until a record
\* is written, LastIndex() is 0 and ReadAll() is empty, and the first
\* record gets index 1 and its frame starts at byte 8.
FreshLogIsHeaderOnly ==
    LET o == NewWithConfig(<<>>, config.MaxEntrySize)
    IN  /\ o.err = "nil" /\ Len(o.file) = 8
        /\ Uint32(SubSeq(o.file, 1, 4)) = 1463897121
        /\ Uint32(SubSeq(o.file, 5, 8)) = 1
        /\ o.index = <<>> /\ o.nextIndex = 1 /\ o.offset = 8
        /\ (/\ opens = 1 /\ metrics.WriteCount = 0
            /\ \A t \in live : pc[t] # "a_index") =>
               /\ file = o.file
               /\ LastIndexOf(index) = 0
               /\ fdOpen => ReadAllOf = Ok(<<>>)
               /\ nextIndex = 1 /\ offset = 8
        /\ (opens = 1 /\ metrics.WriteCount = 1 /\ AllIdle /\ Len(index) = 1) =>
               /\ index[1] = [Index |-> 1, Offset |-> 8]
               /\ SubSeq(file, 9, Len(file)) = Frame(recs[1])

\* the first Append on the new log has returned
FreshLogIsHeaderOnlyAppended ==
    /\ opens = 1 /\ fdOpen /\ metrics.WriteCount = 1
    /\ ret["t1"].op = "Append" /\ ret["t1"].err = "nil"
    /\ index = <<[Index |-> 1, Offset |-> 8]>>

\* C19: recovery truncates a torn frame: a frame whose 9-byte header is
\* complete, with a length within MaxEntrySize, and whose payload is cut
\* short does not stay in the file, so on a handle just opened no complete
\* frame header lies beyond the write offset.
TornFrameTruncated ==
    JustOpened => Len(file) - offset < EntryHeaderSize

NoWriteAfterClosedFlag ==
    [][(closed = 1 /\ opens' = opens) =>
          UNCHANGED <<file, index, nextIndex, offset>>]_vars

\* C22: a reader never observes a frame other than the complete frame of
\* the record it looked up, whatever Append and TruncateFromIndex do in
\* between: a GetEntry that returns a payload returns the payload of the
\* record that was at its index when it looked the index up, and each frame
\* ReadAll reads successfully is that of the record at that position of
\* its snapshot.
ReaderSeesLookedUpFrame ==
    [][\A t \in live :
          /\ (/\ pc[t] = "g_read" /\ pc'[t] = "idle"
              /\ ret'[t].err = "nil") => ret'[t].out = loc[t].snap
          /\ (/\ pc[t] = "r_read" /\ pc'[t] = "r_read"
              /\ Len(loc'[t].results) = Len(loc[t].results) + 1) =>
                 loc'[t].results[Len(loc'[t].results)]
                     = loc[t].snap[Len(loc'[t].results)]]_vars

\* the positions of a caller inside the section of Append, Sync (also the
\* Sync of AppendAndSync and of Close) or TruncateFromIndex that works on
\* the file under writeMu
InWriteSection(t) ==
    pc[t] \in {"a_write", "a_index", "s_sync", "t_locki", "t_trunc", "t_sync", "t_update"}

\* C23: at most one of Append, Sync and TruncateFromIndex is inside its
\* file-mutating section at any time, and it holds writeMu; between the
\* file shrink of a TruncateFromIndex and its reset of index, nextIndex,
\* offset and file position nothing else has written or truncated: the
\* file still ends at the truncation offset and the index is as the call
\* found it.
WriteDiscipline ==
    \A t \in live :
        /\ InWriteSection(t) =>
               /\ writeMu = t
               /\ \A u \in live \ {t} : ~InWriteSection(u)
        /\ pc[t] \in {"t_sync", "t_update"} =>
               /\ TruncateIndexValid(call[t].idx, index)
               /\ Len(file) = TruncateOffset(call[t].idx, index, offset)
               /\ cursor = offset

\* a TruncateFromIndex has shrunk the file and another caller's Append
\* waits for writeMu
WriteDisciplineWaiting ==
    /\ pc["t1"] = "t_sync" /\ pc["t2"] = "a_lock"
    /\ writeMu = "t1"

\* C24: index reads never wait for file I/O: no caller holds indexMu
\* exclusively while it is about to write, truncate or sync the file, so
\* LastIndex and the index lookups of GetEntry and ReadAll can go on.
IndexLockFreeDuringIO ==
    \A t \in live :
        pc[t] \in {"a_write", "s_sync", "t_trunc", "t_sync"} => indexMu # t

\* the started call of t can take its next step: the process has not
\* panicked and the lock the step takes is free
CanStep(t) ==
    /\ pc[t] # "idle" /\ ~panicked
    /\ pc[t] \in {"a_lock", "s_lock", "t_lockw"} => TryLock(writeMu)
    /\ pc[t] \in {"a_index", "t_locki"} => indexMu = NoThread

\* C25: with concurrent callers of every operation on one handle no state
\* is a deadlock on writeMu, indexMu and readMu: whenever a call has
\* started and not returned, some started call can take its next step, so
\* that under fair scheduling every started call returns.
NoCallStuck ==
    (\E t \in live : pc[t] # "idle") => \E t \in live : CanStep(t)

\* C26: on a handle opened on a file that ended in a torn or corrupt frame,
\* after any appends and truncates and Close no byte is left in the file
\* beyond the last indexed frame, and opening the path again yields exactly
\* the records ReadAll returned before Close: no byte of the damaged tail is
\* recovered as a record.
NoPhantomAfterDamagedTail ==
    [][(damaged > 0 /\ damaged' = damaged /\ opens' = opens + 1) =>
           /\ Len(file) = offset
           /\ openErr' = "nil"
           /\ ReadEntries(file', fdOpen', index', 1, config.MaxEntrySize) = seen.all]_vars

\* C27: the size check of Append holds for every payload length, those of
\* 2^32 bytes or more included: a call that has passed the check has a
\* payload of at most MaxEntrySize bytes, and the frame it has written has
\* the payload's actual length in its length field and holds the whole
\* payload.
AppendSizeCheckSound ==
    \A t \in live :
        /\ (pc[t] \in {"a_lock", "a_write", "a_index"} /\ ~call[t].data.nil) =>
               ~LongerThan(call[t].data, config.MaxEntrySize)
        /\ pc[t] = "a_index" =>
               LET at == loc[t].off
                   data == call[t].data
               IN  /\ data.blocks = 0
                   /\ Uint32(SubSeq(file, at + 2, at + 5)) = Len(data.bytes)
                   /\ Len(file) >= at + EntryHeaderSize + Len(data.bytes)
                   /\ SubSeq(file, at + EntryHeaderSize + 1,
                             at + EntryHeaderSize + Len(data.bytes)) = data.bytes

====
